---- MODULE Spec2Model ----
(***************************************************************************)
(* UpLifty: the upload pipeline of the S3 storage provider behind the      *)
(* Uplifty facade, on the JavaScript event loop.                            *)
(*                                                                         *)
(* Two pipelines live in the repository:                                   *)
(*   "core" : core/uplifty.ts  + providers/s3 (AWS SDK v3, lib-storage)    *)
(*   "lib"  : lib/uplifty.ts   + lib/s3Provider.ts (AWS SDK v2)            *)
(*                                                                         *)
(* The event loop is run-to-completion: one task (a facade call, a backend *)
(* event, a timer) runs at a time, the microtask queue (promise reactions, *)
(* await continuations) is drained before the next task starts, and timers *)
(* of equal delay fire in the order they were set.                         *)
(***************************************************************************)
EXTENDS Integers, Sequences, FiniteSets, TLC

VARIABLES
    provider,    \* the facade's storageProvider field
    pipeline,    \* which of the two pipelines the facade was built from
    phase,       \* "ready" after construction, "called" after the facade call
    files,       \* the file list the caller hands to the facade call
    onProgress,  \* options.onProgress was supplied
    uploadCalls, \* how many times provider.upload has been called
    transfer,    \* per upload: the backend transfer object
    reported,    \* per upload: the byte-progress reports handed to the handler
    outcome,     \* per upload: the promise returned by provider.upload
    seen,        \* per upload: the outcome as observed by the awaiter of that promise
    agg,         \* the promise returned by the facade call (Promise.all)
    aggSeen,     \* the aggregate outcome as observed by the caller
    micro,       \* microtask queue
    timers,      \* pending setTimeout(..., 0) callbacks, in firing order
    delivered,   \* invocations of the progress callback, in order
    settleOrder, \* the uploads in the order in which their promises settled
    call,        \* a single operation under study and its inputs (none in a full run)
    ret          \* what that operation produced

vars == <<provider, pipeline, phase, files, onProgress, uploadCalls, transfer, reported,
          outcome, seen, agg, aggSeen, micro, timers, delivered, settleOrder, call, ret>>

----------------------------------------------------------------------------
(* Bounds *)

\* total number of byte-progress reports the backend makes in one run
MaxReports == 3

\* length of the file names handed to sanitizeFileName
MaxNameLen == 3

----------------------------------------------------------------------------
(* Values *)

None == <<>>
Some(x) == <<x>>

Pipelines == {"core", "lib"}

\* the file lists the caller may pass (file names)
FileLists == {<<>>, <<"a.png">>, <<"a.png", "b.pdf">>}
SingleFileLists == {fl \in FileLists : Len(fl) <= 1}

\* JavaScript numbers as far as Math.round((loaded / total) * 100) produces them
Num(n) == [kind |-> "finite", v |-> n]
NaN == [kind |-> "NaN", v |-> 0]
Infinity == [kind |-> "Infinity", v |-> 0]

\* a byte-progress report of the backend: loaded and total, each possibly undefined
Report(l, t) == [loaded |-> l, total |-> t]
Reports == {Report(Some(0), Some(100)), Report(Some(50), Some(100)),
            Report(Some(100), Some(100))}
\* the reports drawn when several transfers are in flight together
ReportsFor(fl) == IF Len(fl) <= 1 THEN Reports ELSE {Report(Some(50), Some(100))}

\* values the backend can throw or reject with; id is the value's identity
ErrNetwork == [id |-> "E1", isError |-> TRUE, message |-> "Network Failure"]
ErrEmpty == [id |-> "E2", isError |-> TRUE, message |-> ""]
ErrNotError == [id |-> "E3", isError |-> FALSE, message |-> "AccessDenied"]
BackendErrors == {ErrNetwork, ErrEmpty, ErrNotError}
\* what a throwing progress callback throws
CallbackError == [id |-> "CB", isError |-> TRUE, message |-> "callback threw"]

\* result.Location as the backend may return it
Locations == {None, Some("https://cdn.example.com/object")}

Bucket == "your-bucket-name"
Region == "us-east-1"

UPLOADING == "UPLOADING"
COMPLETED == "COMPLETED"
FAILED == "FAILED"
UploadStatus == {"QUEUED", UPLOADING, "PROCESSING", COMPLETED, FAILED, "CANCELLED"}

Pending == [kind |-> "pending"]
Resolved(v) == [kind |-> "resolved", value |-> v]
Rejected(e) == [kind |-> "rejected", error |-> e]

----------------------------------------------------------------------------
(* Strings, character by character *)

CharAt(s, i) == SubSeq(s, i, i)

RECURSIVE CharsOf(_)
CharsOf(s) == IF s = "" THEN {} ELSE {Head(s)} \cup CharsOf(Tail(s))

endsWith(s, suffix) ==
    Len(s) >= Len(suffix) /\ SubSeq(s, Len(s) - Len(suffix) + 1, Len(s)) = suffix

Lower == "abcdefghijklmnopqrstuvwxyz"
Upper == "ABCDEFGHIJKLMNOPQRSTUVWXYZ"
Digits == "0123456789"

\* the character class \s, as far as the names below use it
WhiteSpace == {" ", "\t", "\n", "\r", "\f"}
\* the character class [\x20-\x7E]; the backquote, which a TLA+ string cannot
\* hold and no name below contains, is left out
PrintableAscii ==
    CharsOf(" !\"#$%&'()*+,-./" \o Digits \o ":;<=>?@" \o Upper \o "[\\]^_"
            \o Lower \o "{|}~")
\* the character class [&/\\#,+()$~%'":*?<>{}]
Dangerous == CharsOf("&/\\#,+()$~%'\":*?<>{}")

\* String.prototype.replace(/[class]/g, '_'), or /[^class]/g when negated
RECURSIVE replaceAll(_, _, _)
replaceAll(s, class, negated) ==
    IF s = "" THEN ""
    ELSE (IF (Head(s) \in class) # negated THEN "_" ELSE Head(s))
         \o replaceAll(Tail(s), class, negated)

\* String.prototype.toLowerCase on the letters A-Z
RECURSIVE toLowerCase(_)
toLowerCase(s) ==
    IF s = "" THEN ""
    ELSE (IF \E i \in 1..26 : CharAt(Upper, i) = Head(s)
          THEN CharAt(Lower, CHOOSE i \in 1..26 : CharAt(Upper, i) = Head(s))
          ELSE Head(s))
         \o toLowerCase(Tail(s))

\* fileName.split('.').pop(): what follows the last dot, the whole name if none
RECURSIVE splitPop(_, _)
splitPop(s, acc) ==
    IF s = "" THEN acc
    ELSE IF Head(s) = "." THEN splitPop(Tail(s), "")
    ELSE splitPop(Tail(s), acc \o Head(s))

\* Number.prototype.toString on a non-negative integer
RECURSIVE toString(_)
toString(n) ==
    IF n < 10 THEN CharAt(Digits, n + 1)
    ELSE toString(n \div 10) \o CharAt(Digits, (n % 10) + 1)

\* /^pattern/.test(s): in the pattern, "." stands for any character but a line end
RECURSIVE testPrefix(_, _)
testPrefix(s, pattern) ==
    IF pattern = "" THEN TRUE
    ELSE IF s = "" THEN FALSE
    ELSE /\ \/ Head(pattern) = Head(s)
            \/ Head(pattern) = "." /\ Head(s) \notin {"\n", "\r"}
         /\ testPrefix(Tail(s), Tail(pattern))

----------------------------------------------------------------------------
(* lib/utils.ts *)

\* enum FolderPath
FolderPath ==
    [DEFAULT |-> "files/", IMAGES |-> "images/", DOCUMENTS |-> "documents/",
     VIDEOS |-> "videos/"]

OctetStream == "application/octet-stream"

\* A sanitizer without the pass over the dangerous characters.
sanitizeFileNameAsciiOnly(fileName) ==
    replaceAll(replaceAll(fileName, WhiteSpace, FALSE), PrintableAscii, TRUE)

sanitizeFileName(fileName) ==
    replaceAll(replaceAll(replaceAll(fileName, WhiteSpace, FALSE),
                          PrintableAscii, TRUE),
               Dangerous, FALSE)

getDestinationFolder(mimeType) ==
    IF \E t \in {"jpeg", "png", "gif", "webp", "tiff"} :
          testPrefix(mimeType, "image/" \o t)
    THEN FolderPath.IMAGES
    ELSE IF testPrefix(mimeType, "video/") \/ mimeType = "image/gif"
    THEN FolderPath.VIDEOS
    ELSE IF \/ \E t \in {"pdf", "msword", "vnd.openxmlformats-officedocument",
                         "vnd.ms-excel", "vnd.ms-powerpoint"} :
                  testPrefix(mimeType, "application/" \o t)
            \/ mimeType = "text/plain"
    THEN FolderPath.DOCUMENTS
    ELSE FolderPath.DEFAULT

getFileExtension(fileName) == toLowerCase(splitPop(fileName, ""))

\* the extension table of guessMimeType
mimeTypes ==
    [jpg |-> "image/jpeg", jpeg |-> "image/jpeg", png |-> "image/png",
     gif |-> "image/gif", webp |-> "image/webp", pdf |-> "application/pdf",
     doc |-> "application/msword",
     docx |-> "application/vnd.openxmlformats-officedocument.wordprocessingml.document",
     xls |-> "application/vnd.ms-excel",
     xlsx |-> "application/vnd.openxmlformats-officedocument.spreadsheetml.sheet",
     ppt |-> "application/vnd.ms-powerpoint",
     pptx |-> "application/vnd.openxmlformats-officedocument.presentationml.presentation",
     mp4 |-> "video/mp4", mov |-> "video/quicktime", avi |-> "video/x-msvideo",
     txt |-> "text/plain", csv |-> "text/csv"]

guessMimeType(fileName) ==
    LET ext == getFileExtension(fileName)
    IN IF ext \in DOMAIN mimeTypes THEN mimeTypes[ext] ELSE OctetStream

\* a File: its name, its declared type ('' when the platform knows none), its size
File(name, type, size) == [name |-> name, type |-> type, size |-> size]

----------------------------------------------------------------------------
(* Progress events and their dispatch *)

ProgressEvent(u, name, progress, status, error, url) ==
    [u |-> u, fileName |-> name, progress |-> progress, status |-> status,
     error |-> error, url |-> url]

\* JavaScript truthiness of an optional string / optional number
TruthyStr(o) == o # None /\ o[1] # ""
TruthyNum(o) == o # None /\ o[1] # 0

\* how many entries of a queue of events belong to upload u
CountOf(q, u) == Cardinality({i \in DOMAIN q : q[i].u = u})
CountDelivered(d, u) == Cardinality({i \in DOMAIN d : d[i].ev.u = u})

\* A dispatcher that runs the callback inline, inside the caller's own execution.
notifyProgressInline(st, callbackThrows, progress) ==
    [timers |-> st.timers,
     delivered |-> Append(st.delivered, [ev |-> progress, ctx |-> "inline"]),
     threw |-> callbackThrows]

\* A dispatcher whose newest callback runs first.
notifyProgressLifo(st, callbackThrows, progress) ==
    [timers |-> <<progress>> \o st.timers,
     delivered |-> st.delivered,
     threw |-> FALSE]

\* A dispatcher that sets no timer: the event is lost.
notifyProgressDropped(st, callbackThrows, progress) ==
    [timers |-> st.timers,
     delivered |-> st.delivered,
     threw |-> FALSE]

\* notifyProgress: setTimeout(() => callback(progress), 0).  st is the loop's
\* [timers, delivered]; the result also says whether the call threw.
notifyProgress(st, callbackThrows, progress) ==
    [timers |-> Append(st.timers, progress),
     delivered |-> st.delivered,
     threw |-> FALSE]

\* `if (onProgress) this.notifyProgress(onProgress, ev)`
notifyIf(st, cb, callbackThrows, progress) ==
    IF cb THEN notifyProgress(st, callbackThrows, progress)
    ELSE [timers |-> st.timers, delivered |-> st.delivered, threw |-> FALSE]

----------------------------------------------------------------------------
(* The provider *)

\* A key built from the raw file name.
getFilePathRaw(file, folder) ==
    IF TruthyStr(folder)
    THEN (IF endsWith(folder[1], "/") THEN folder[1] ELSE folder[1] \o "/")
         \o file.name
    ELSE getDestinationFolder(IF file.type # "" THEN file.type
                              ELSE guessMimeType(file.name))
         \o file.name

\* getFilePath(file, folder): the folder, or the classification folder of the
\* declared or guessed MIME type, then the sanitized name
getFilePath(file, folder) ==
    IF TruthyStr(folder)
    THEN (IF endsWith(folder[1], "/") THEN folder[1] ELSE folder[1] \o "/")
         \o sanitizeFileName(file.name)
    ELSE getDestinationFolder(IF file.type # "" THEN file.type
                              ELSE guessMimeType(file.name))
         \o sanitizeFileName(file.name)

\* A URL in the path style: the bucket after the host, not in front of it.
constructS3UrlPathStyle(filePath) ==
    "https://s3." \o Region \o ".amazonaws.com/" \o Bucket \o "/" \o filePath

constructS3Url(filePath) ==
    "https://" \o Bucket \o ".s3." \o Region \o ".amazonaws.com/" \o filePath

\* an UpliftyConfig; an optional field that is omitted is None
Config(type, s3, maxConcurrentUploads, defaultMimeType) ==
    [type |-> type, s3 |-> s3, maxConcurrentUploads |-> maxConcurrentUploads,
     defaultMimeType |-> defaultMimeType]

\* the provider's constructor: { maxConcurrentUploads: 10, defaultMimeType:
\* 'application/octet-stream', ...config }
mergeDefaults(config) ==
    [config EXCEPT !.maxConcurrentUploads = IF @ = None THEN Some(10) ELSE @,
                   !.defaultMimeType = IF @ = None THEN Some(OctetStream) ELSE @]

\* what the caller hands to one upload.  core: upload(file, {folder, generateId,
\* metadata}); lib: upload({file, id, path, metadata}, {folder, generateId})
Request(file, id, path, metadata, folder, generateId) ==
    [file |-> file, id |-> id, path |-> path, metadata |-> metadata,
     folder |-> folder, generateId |-> generateId]

\* A fileId that never looks at the caller's id.
fileIdIgnoringId(pl, req, generated) ==
    IF req.generateId = None \/ req.generateId = Some(TRUE)
    THEN generated ELSE req.file.name

\* core: shouldGenerateId ? generateUniqueId() : file.name
\* lib:  id || (generateId ? generateUniqueId() : file.name)
\* generated is what generateUniqueId() returns in this call
fileIdOf(pl, req, generated) ==
    IF pl = "lib" /\ TruthyStr(req.id) THEN req.id[1]
    ELSE IF req.generateId = None \/ req.generateId = Some(TRUE)
    THEN generated ELSE req.file.name

\* core: this.getFilePath(file, folder); lib: path || this.getFilePath(file, folder)
filePathOf(pl, req) ==
    IF pl = "lib" /\ TruthyStr(req.path) THEN req.path[1]
    ELSE getFilePath(req.file, req.folder)

\* file.type || guessMimeType(file.name) || this.config.defaultMimeType
\*   || 'application/octet-stream'
contentTypeOf(config, file) ==
    IF file.type # "" THEN file.type
    ELSE IF guessMimeType(file.name) # "" THEN guessMimeType(file.name)
    ELSE IF TruthyStr(config.defaultMimeType) THEN config.defaultMimeType[1]
    ELSE OctetStream

\* An object spread in which the entries written first are kept.
spreadKeepFirst(first, last) ==
    [k \in DOMAIN first \cup DOMAIN last |->
        IF k \in DOMAIN first THEN first[k] ELSE last[k]]

\* { ...first, ...last }: on a shared key the entry written last is kept
spread(first, last) ==
    [k \in DOMAIN first \cup DOMAIN last |->
        IF k \in DOMAIN last THEN last[k] ELSE first[k]]

\* the names of the six derived Metadata entries, pipeline by pipeline
MetadataKeys(pl) ==
    IF pl = "core"
    THEN [contentType |-> "content-type", fileId |-> "file-id",
          storagePath |-> "storage-path", fileType |-> "file-type",
          size |-> "size", name |-> "name"]
    ELSE [contentType |-> "Content-Type", fileId |-> "fileId",
          storagePath |-> "storagePath", fileType |-> "fileType",
          size |-> "size", name |-> "name"]

\* the six derived Metadata entries
derivedMetadata(pl, contentType, fileId, filePath, file) ==
    LET k == MetadataKeys(pl)
    IN (k.contentType :> contentType) @@ (k.fileId :> fileId)
       @@ (k.storagePath :> filePath) @@ (k.fileType :> contentType)
       @@ (k.size :> toString(file.size)) @@ (k.name :> sanitizeFileName(file.name))

\* the params handed to new Upload(...) / s3.upload(...), with the fileId
putObjectParams(pl, config, req, generated) ==
    LET fileId == fileIdOf(pl, req, generated)
        filePath == filePathOf(pl, req)
        contentType == contentTypeOf(config, req.file)
    IN [fileId |-> fileId,
        Bucket |-> config.s3[1].bucket[1],
        Key |-> filePath,
        ContentType |-> contentType,
        Metadata |-> spread(derivedMetadata(pl, contentType, fileId, filePath,
                                            req.file),
                            req.metadata)]

\* A result that hands back the Metadata sent to the backend.
returnedResultEnriched(pl, config, req, sent, location) ==
    [fileId |-> sent.fileId,
     fileName |-> req.file.name,
     url |-> IF TruthyStr(location) THEN location[1] ELSE constructS3Url(sent.Key),
     size |-> req.file.size,
     mimeType |-> sent.ContentType,
     metadata |-> sent.Metadata]

\* the UploadResult returned after the transfer with params sent has resolved
returnedResult(pl, config, req, sent, location) ==
    [fileId |-> sent.fileId,
     fileName |-> req.file.name,
     url |-> IF TruthyStr(location) THEN location[1] ELSE constructS3Url(sent.Key),
     size |-> req.file.size,
     mimeType |-> sent.ContentType,
     metadata |-> req.metadata]

\* The percentage with the quotient truncated before it is scaled.
percentTruncated(r) ==
    IF r.loaded = None \/ r.total = None THEN NaN
    ELSE IF r.total[1] = 0 THEN (IF r.loaded[1] = 0 THEN NaN ELSE Infinity)
    ELSE Num((r.loaded[1] \div r.total[1]) * 100)

\* Math.round((progress.loaded / progress.total) * 100)
percent(r) ==
    IF r.loaded = None \/ r.total = None THEN NaN
    ELSE IF r.total[1] = 0 THEN (IF r.loaded[1] = 0 THEN NaN ELSE Infinity)
    ELSE Num((200 * r.loaded[1] + r.total[1]) \div (2 * r.total[1]))

NoTransfer ==
    [state |-> "none", location |-> None, error |-> None,
     queuedAtIssue |-> 0, deliveredAtIssue |-> 0, handlerThrew |-> FALSE]

\* the transfer object as created while the loop is in state st
Issued(st, u) ==
    [NoTransfer EXCEPT !.state = "inflight",
                       !.queuedAtIssue = CountOf(st.timers, u),
                       !.deliveredAtIssue = CountDelivered(st.delivered, u)]

\* A catch block that reports FAILED and throws a new Error made from the message.
catchBlockWrapping(st, u, name, cb, callbackThrows, error) ==
    LET s1 == notifyIf(st, cb, callbackThrows,
                  ProgressEvent(u, name, Num(0), FAILED,
                      Some(IF error.isError THEN error.message ELSE "Upload failed"),
                      None))
    IN [timers |-> s1.timers, delivered |-> s1.delivered,
        outcome |-> Rejected([id |-> "wrapped", isError |-> TRUE,
                              message |-> error.message])]

\* A catch block that re-throws without reporting FAILED.
catchBlockSilent(st, u, name, cb, callbackThrows, error) ==
    [timers |-> st.timers, delivered |-> st.delivered, outcome |-> Rejected(error)]

\* A catch block that reports FAILED, and reports it again before re-throwing.
catchBlockTwice(st, u, name, cb, callbackThrows, error) ==
    LET ev == ProgressEvent(u, name, Num(0), FAILED,
                  Some(IF error.isError THEN error.message ELSE "Upload failed"),
                  None)
        s1 == notifyIf(st, cb, callbackThrows, ev)
        s2 == notifyIf(s1, cb, callbackThrows, ev)
    IN [timers |-> s2.timers, delivered |-> s2.delivered, outcome |-> Rejected(error)]

\* the catch block of upload: report FAILED, re-throw
catchBlock(st, u, name, cb, callbackThrows, error) ==
    LET s1 == notifyIf(st, cb, callbackThrows,
                  ProgressEvent(u, name, Num(0), FAILED,
                      Some(IF error.isError THEN error.message ELSE "Upload failed"),
                      None))
    IN [timers |-> s1.timers, delivered |-> s1.delivered,
        outcome |-> Rejected(IF s1.threw THEN CallbackError ELSE error)]

UploadResult(u, name, url) == [u |-> u, fileName |-> name, url |-> url]

\* The tail of upload with the url left out of the COMPLETED event.
uploadSettledNoUrl(st, u, name, cb, callbackThrows, tr) ==
    IF tr.state = "ok"
    THEN LET url == IF TruthyStr(tr.location) THEN tr.location[1]
                    ELSE constructS3Url(getFilePath(File(name, "", 0), None))
             s1 == notifyIf(st, cb, callbackThrows,
                       ProgressEvent(u, name, Num(100), COMPLETED, None, None))
         IN [timers |-> s1.timers, delivered |-> s1.delivered,
             outcome |-> Resolved(UploadResult(u, name, url))]
    ELSE catchBlock(st, u, name, cb, callbackThrows, tr.error[1])

\* upload, from the settling of `await upload.done()` (`upload.promise()`) on;
\* tr is the settled transfer
uploadSettled(st, u, name, cb, callbackThrows, tr) ==
    IF tr.state = "ok"
    THEN LET url == IF TruthyStr(tr.location) THEN tr.location[1]
                    ELSE constructS3Url(getFilePath(File(name, "", 0), None))
             s1 == notifyIf(st, cb, callbackThrows,
                       ProgressEvent(u, name, Num(100), COMPLETED, None, Some(url)))
         IN IF s1.threw
            THEN catchBlock(s1, u, name, cb, callbackThrows, CallbackError)
            ELSE [timers |-> s1.timers, delivered |-> s1.delivered,
                  outcome |-> Resolved(UploadResult(u, name, url))]
    ELSE catchBlock(st, u, name, cb, callbackThrows, tr.error[1])

\* The head of upload with the transfer created before UPLOADING 0 is reported.
uploadIssueFirst(st, u, name, cb, callbackThrows, fault) ==
    IF fault # None
    THEN LET c == catchBlock(st, u, name, cb, callbackThrows, fault[1])
         IN [timers |-> c.timers, delivered |-> c.delivered,
             transfer |-> [NoTransfer EXCEPT !.state = "createFailed",
                                             !.error = fault],
             outcome |-> c.outcome]
    ELSE LET s0 == notifyIf(st, cb, callbackThrows,
                       ProgressEvent(u, name, Num(0), UPLOADING, None, None))
         IN [timers |-> s0.timers, delivered |-> s0.delivered,
             transfer |-> Issued(st, u), outcome |-> Pending]

\* providers/s3 upload, up to its await: report UPLOADING 0, then (inside try)
\* create the Upload and start it.  fault is what `new Upload` throws, if anything.
upload(st, u, name, cb, callbackThrows, fault) ==
    LET s0 == notifyIf(st, cb, callbackThrows,
                  ProgressEvent(u, name, Num(0), UPLOADING, None, None))
    IN IF s0.threw
       THEN [timers |-> s0.timers, delivered |-> s0.delivered,
             transfer |-> NoTransfer, outcome |-> Rejected(CallbackError)]
       ELSE IF fault # None
       THEN LET c == catchBlock(s0, u, name, cb, callbackThrows, fault[1])
            IN [timers |-> c.timers, delivered |-> c.delivered,
                transfer |-> [NoTransfer EXCEPT !.state = "createFailed",
                                                !.error = fault],
                outcome |-> c.outcome]
       ELSE [timers |-> s0.timers, delivered |-> s0.delivered,
             transfer |-> Issued(s0, u), outcome |-> Pending]

\* lib/s3Provider upload, up to its await: report UPLOADING 0, then create the
\* managed upload (outside try) and start it
legacyUpload(st, u, name, cb, callbackThrows, fault) ==
    LET s0 == notifyIf(st, cb, callbackThrows,
                  ProgressEvent(u, name, Num(0), UPLOADING, None, None))
    IN IF s0.threw
       THEN [timers |-> s0.timers, delivered |-> s0.delivered,
             transfer |-> NoTransfer, outcome |-> Rejected(CallbackError)]
       ELSE IF fault # None
       THEN [timers |-> s0.timers, delivered |-> s0.delivered,
             transfer |-> [NoTransfer EXCEPT !.state = "createFailed",
                                             !.error = fault],
             outcome |-> Rejected(fault[1])]
       ELSE [timers |-> s0.timers, delivered |-> s0.delivered,
             transfer |-> Issued(s0, u), outcome |-> Pending]

\* A handler that reads the upload's identity from a field of the shared provider,
\* which holds the identity of the upload started last.
httpUploadProgressLastStarted(st, u, name, callbackThrows, r) ==
    IF TruthyNum(r.loaded) /\ TruthyNum(r.total)
    THEN notifyProgress(st, callbackThrows,
             ProgressEvent(Len(files), files[Len(files)], percent(r), UPLOADING,
                           None, None))
    ELSE [timers |-> st.timers, delivered |-> st.delivered, threw |-> FALSE]

\* providers/s3: the httpUploadProgress handler
httpUploadProgress(st, u, name, callbackThrows, r) ==
    IF TruthyNum(r.loaded) /\ TruthyNum(r.total)
    THEN notifyProgress(st, callbackThrows,
             ProgressEvent(u, name, percent(r), UPLOADING, None, None))
    ELSE [timers |-> st.timers, delivered |-> st.delivered, threw |-> FALSE]

\* lib/s3Provider: the httpUploadProgress handler
legacyHttpUploadProgress(st, u, name, callbackThrows, r) ==
    notifyProgress(st, callbackThrows,
        ProgressEvent(u, name, percent(r), UPLOADING, None, None))

----------------------------------------------------------------------------
(* The facade *)

NoProviderError ==
    [id |-> "NP", isError |-> TRUE, message |-> "No storage provider initialized"]

Job(kind, u) == [kind |-> kind, u |-> u]

\* A map that starts at most maxConcurrentUploads uploads and leaves the other
\* files waiting.
RECURSIVE mapUploadsLimited(_, _, _, _, _, _, _, _)
mapUploadsLimited(st0, prov, pl, fl, cb, callbackThrows, faults, i) ==
    IF i = 0
    THEN [timers |-> st0.timers, delivered |-> st0.delivered,
          transfer |-> <<>>, outcome |-> <<>>, calls |-> 0]
    ELSE LET prev == mapUploadsLimited(st0, prov, pl, fl, cb, callbackThrows, faults, i - 1)
             st == [timers |-> prev.timers, delivered |-> prev.delivered]
             r == IF i > mergeDefaults(call.config).maxConcurrentUploads[1]
                  THEN [timers |-> st.timers, delivered |-> st.delivered,
                        transfer |-> NoTransfer, outcome |-> Pending]
                  ELSE IF pl = "core"
                  THEN upload(st, i, fl[i], cb, callbackThrows, faults[i])
                  ELSE legacyUpload(st, i, fl[i], cb, callbackThrows, faults[i])
         IN [timers |-> r.timers, delivered |-> r.delivered,
             transfer |-> Append(prev.transfer, r.transfer),
             outcome |-> Append(prev.outcome, r.outcome),
             calls |-> prev.calls + 1]

\* files.map(file => provider.upload(file, options)): the synchronous part of
\* each upload, file by file, for the files 1..i of fl
RECURSIVE mapUploads(_, _, _, _, _, _, _, _)
mapUploads(st0, prov, pl, fl, cb, callbackThrows, faults, i) ==
    IF i = 0
    THEN [timers |-> st0.timers, delivered |-> st0.delivered,
          transfer |-> <<>>, outcome |-> <<>>, calls |-> 0]
    ELSE LET prev == mapUploads(st0, prov, pl, fl, cb, callbackThrows, faults, i - 1)
             st == [timers |-> prev.timers, delivered |-> prev.delivered]
             r == IF pl = "core"
                  THEN upload(st, i, fl[i], cb, callbackThrows, faults[i])
                  ELSE IF prov = None
                  THEN [timers |-> st.timers, delivered |-> st.delivered,
                        transfer |-> NoTransfer,
                        outcome |-> Rejected(NoProviderError)]
                  ELSE legacyUpload(st, i, fl[i], cb, callbackThrows, faults[i])
         IN [timers |-> r.timers, delivered |-> r.delivered,
             transfer |-> Append(prev.transfer, r.transfer),
             outcome |-> Append(prev.outcome, r.outcome),
             calls |-> IF pl = "lib" /\ prov = None THEN prev.calls
                       ELSE prev.calls + 1]

\* the promise of the facade call: kind, Promise.all's collected values, reason
AggPending(n) == [kind |-> "pending", values |-> [i \in 1..n |-> None], error |-> None]
AggResolved(vs) == [kind |-> "resolved", values |-> vs, error |-> None]
AggRejected(vs, e) == [kind |-> "rejected", values |-> vs, error |-> Some(e)]

\* the reaction jobs Promise.all gets at once: those of the promises already settled
RECURSIVE settledJobs(_, _)
settledJobs(outs, i) ==
    IF i = 0 THEN <<>>
    ELSE IF outs[i].kind = "pending" THEN settledJobs(outs, i - 1)
    ELSE Append(settledJobs(outs, i - 1), Job("react", i))

\* the uploads whose promises settled while files.map was running: an upload
\* that throws before its first await settles before the next file is mapped
settledDuringCall(outs) ==
    LET jobs == settledJobs(outs, Len(outs))
    IN [j \in DOMAIN jobs |-> jobs[j].u]

\* Promise.race in place of Promise.all: with no promises it never settles.
promiseRaceStart(outs) ==
    [agg |-> AggPending(Len(outs)), micro |-> settledJobs(outs, Len(outs))]

\* Promise.all(uploads) when it is called: settled at once for no promises,
\* otherwise pending, reacting first to the promises that are already settled
promiseAllStart(outs) ==
    IF Len(outs) = 0
    THEN [agg |-> AggResolved(<<>>), micro |-> <<Job("caller", 0)>>]
    ELSE [agg |-> AggPending(Len(outs)), micro |-> settledJobs(outs, Len(outs))]

\* A facade call on an instance whose provider field has been cleared.
facadeCallNoProvider(st0, prov, pl, fl, cb, callbackThrows, faults) ==
    LET n == Len(fl)
        idle == [timers |-> st0.timers, delivered |-> st0.delivered,
                 transfer |-> [i \in 1..n |-> NoTransfer],
                 outcome |-> [i \in 1..n |-> Pending], calls |-> 0]
    IN IF pl = "core"
       THEN [run |-> idle, agg |-> AggRejected(AggPending(n).values, NoProviderError),
             micro |-> <<Job("caller", 0)>>]
       ELSE LET r == mapUploads(st0, None, pl, fl, cb, callbackThrows, faults, n)
                all == promiseAllStart(r.outcome)
            IN [run |-> r, agg |-> all.agg, micro |-> all.micro]

\* core/uplifty.ts upload(files) and lib/uplifty.ts uploadMultiple(files),
\* up to the point where the call returns its promise
facadeCall(st0, prov, pl, fl, cb, callbackThrows, faults) ==
    LET n == Len(fl)
        idle == [timers |-> st0.timers, delivered |-> st0.delivered,
                 transfer |-> [i \in 1..n |-> NoTransfer],
                 outcome |-> [i \in 1..n |-> Pending], calls |-> 0]
    IN IF pl = "core" /\ prov = None
       THEN [run |-> idle, agg |-> AggRejected(AggPending(n).values, NoProviderError),
             micro |-> <<Job("caller", 0)>>]
       ELSE IF pl = "core" /\ n = 0
       THEN [run |-> idle, agg |-> AggResolved(<<>>), micro |-> <<Job("caller", 0)>>]
       ELSE LET r == mapUploads(st0, prov, pl, fl, cb, callbackThrows, faults, n)
                all == promiseAllStart(r.outcome)
            IN [run |-> r, agg |-> all.agg, micro |-> all.micro]

\* what a settled facade promise hands to the code awaiting it
CallerView(a) ==
    IF a.kind = "resolved" THEN Resolved(a.values)
    ELSE IF a.kind = "rejected" THEN Rejected(a.error[1])
    ELSE Pending

\* Promise.allSettled in place of Promise.all: a rejection is collected like a value.
promiseAllSettled(a, i, out) ==
    IF a.kind # "pending" THEN a
    ELSE LET vs == [a.values EXCEPT ![i] = Some(out)]
         IN IF \A j \in DOMAIN vs : vs[j] # None
            THEN AggResolved([j \in DOMAIN vs |-> vs[j][1]])
            ELSE [a EXCEPT !.values = vs]

\* A join that resolves with what it has as soon as one promise has resolved.
promiseAllFirstValue(a, i, out) ==
    IF a.kind # "pending" THEN a
    ELSE IF out.kind = "rejected" THEN AggRejected(a.values, out.error)
    ELSE AggResolved(<<out.value>>)

\* A join in which a later rejection replaces the reason of an earlier one.
promiseAllLastRejection(a, i, out) ==
    IF out.kind = "rejected" THEN AggRejected(a.values, out.error)
    ELSE IF a.kind # "pending" THEN a
    ELSE LET vs == [a.values EXCEPT ![i] = Some(out.value)]
         IN IF \A j \in DOMAIN vs : vs[j] # None
            THEN AggResolved([j \in DOMAIN vs |-> vs[j][1]])
            ELSE [a EXCEPT !.values = vs]

\* A join that collects the values in the order in which the promises resolve.
promiseAllCompletionOrder(a, i, out) ==
    IF a.kind # "pending" THEN a
    ELSE IF out.kind = "rejected" THEN AggRejected(a.values, out.error)
    ELSE LET k == CHOOSE j \in DOMAIN a.values :
                     a.values[j] = None /\ \A m \in 1..(j - 1) : a.values[m] # None
             vs == [a.values EXCEPT ![k] = Some(out.value)]
         IN IF \A j \in DOMAIN vs : vs[j] # None
            THEN AggResolved([j \in DOMAIN vs |-> vs[j][1]])
            ELSE [a EXCEPT !.values = vs]

\* Promise.all's reaction to the settling of its i-th promise
promiseAll(a, i, out) ==
    IF a.kind # "pending" THEN a
    ELSE IF out.kind = "rejected" THEN AggRejected(a.values, out.error)
    ELSE LET vs == [a.values EXCEPT ![i] = Some(out.value)]
         IN IF \A j \in DOMAIN vs : vs[j] # None
            THEN AggResolved([j \in DOMAIN vs |-> vs[j][1]])
            ELSE [a EXCEPT !.values = vs]

\* what construction can throw
UnsupportedTypeError(type) ==
    [id |-> "UT", isError |-> TRUE,
     message |-> "Storage type \"" \o type \o "\" is not supported"]
TypeErrorOfUndefined ==
    [id |-> "TE", isError |-> TRUE,
     message |-> "Cannot read properties of undefined"]
ClientError ==
    [id |-> "CE", isError |-> TRUE, message |-> "client initialization failed"]

\* new S3StorageProvider(config): merge the defaults, then build the backend client
\* from this.config.s3; clientThrows says whether the client's constructor throws
newS3StorageProvider(config, clientThrows) ==
    IF config.s3 = None
    THEN [threw |-> Some(TypeErrorOfUndefined), provider |-> None]
    ELSE IF clientThrows
    THEN [threw |-> Some(ClientError), provider |-> None]
    ELSE [threw |-> None, provider |-> Some([config |-> mergeDefaults(config)])]

\* An initializeProvider whose default branch leaves the provider unset.
initializeProviderLenient(config, clientThrows) ==
    IF config.type = "s3" THEN newS3StorageProvider(config, clientThrows)
    ELSE [threw |-> None, provider |-> None]

\* initializeProvider: switch (this.config.type)
initializeProvider(config, clientThrows) ==
    IF config.type = "s3" THEN newS3StorageProvider(config, clientThrows)
    ELSE [threw |-> Some(UnsupportedTypeError(config.type)), provider |-> None]

\* A constructor that stores the configuration with the defaults merged in.
newUpliftyMerging(config, clientThrows) ==
    LET p == initializeProvider(config, clientThrows)
    IN IF p.threw # None
       THEN [threw |-> p.threw, instance |-> None]
       ELSE [threw |-> None,
             instance |-> Some([config |-> mergeDefaults(config),
                                storageProvider |-> p.provider])]

\* new Uplifty(config): this.config = config; this.initializeProvider()
newUplifty(config, clientThrows) ==
    LET p == initializeProvider(config, clientThrows)
    IN IF p.threw # None
       THEN [threw |-> p.threw, instance |-> None]
       ELSE [threw |-> None,
             instance |-> Some([config |-> config, storageProvider |-> p.provider])]

\* getConfig(): return this.config
getConfig(instance) == instance.config

----------------------------------------------------------------------------
(* The system *)

Uploads == DOMAIN files

RECURSIVE SumLen(_, _)
SumLen(seqs, i) == IF i = 0 THEN 0 ELSE Len(seqs[i]) + SumLen(seqs, i - 1)
TotalReports == SumLen(reported, Len(reported))

Faults == {None} \cup {Some(e) : e \in BackendErrors}

\* the state after `new Uplifty(config)` with an S3 configuration, the caller
\* holding the file list fl
InitLoop(fl) ==
    /\ pipeline \in Pipelines
    /\ provider = Some("S3StorageProvider")
    /\ phase = "ready"
    /\ files = fl
    /\ onProgress = FALSE
    /\ uploadCalls = 0
    /\ transfer = [i \in 1..Len(fl) |-> NoTransfer]
    /\ reported = [i \in 1..Len(fl) |-> <<>>]
    /\ outcome = [i \in 1..Len(fl) |-> Pending]
    /\ seen = [i \in 1..Len(fl) |-> Pending]
    /\ agg = AggPending(Len(fl))
    /\ aggSeen = Pending
    /\ micro = <<>>
    /\ timers = <<>>
    /\ delivered = <<>>
    /\ settleOrder = <<>>

\* a full run: no single operation is under study
InitWith(fl) ==
    /\ InitLoop(fl)
    /\ call = None
    /\ ret = None

\* one upload at a time: the caller passes at most one file
Init == \E fl \in SingleFileLists : InitWith(fl)

\* several uploads together: the caller passes any of the file lists
InitMultiple == \E fl \in FileLists : InitWith(fl)

\* the caller calls the facade with a file list and options
Call ==
    /\ phase = "ready"
    /\ \E cb \in BOOLEAN, ct \in BOOLEAN, faults \in [1..Len(files) -> Faults] :
          LET c == facadeCall([timers |-> timers, delivered |-> delivered],
                              provider, pipeline, files, cb, ct, faults)
          IN /\ onProgress' = cb
             /\ uploadCalls' = c.run.calls
             /\ transfer' = c.run.transfer
             /\ outcome' = c.run.outcome
             /\ timers' = c.run.timers
             /\ delivered' = c.run.delivered
             /\ agg' = c.agg
             /\ micro' = c.micro
             /\ settleOrder' = settledDuringCall(c.run.outcome)
    /\ phase' = "called"
    /\ UNCHANGED <<call, ret, provider, pipeline, files, reported, seen, aggSeen>>

\* task: the backend reports byte progress on an in-flight transfer to the
\* httpUploadProgress handler (registered only when onProgress was supplied)
BackendProgress ==
    /\ micro = <<>>
    /\ onProgress
    /\ TotalReports < MaxReports
    /\ \E u \in Uploads, r \in ReportsFor(files), ct \in BOOLEAN :
          /\ transfer[u].state = "inflight"
          /\ reported' = [reported EXCEPT ![u] = Append(@, r)]
          /\ LET st == [timers |-> timers, delivered |-> delivered]
                 h == IF pipeline = "core"
                      THEN httpUploadProgress(st, u, files[u], ct, r)
                      ELSE legacyHttpUploadProgress(st, u, files[u], ct, r)
             IN /\ timers' = h.timers
                /\ delivered' = h.delivered
                /\ transfer' = [transfer EXCEPT ![u].handlerThrew = @ \/ h.threw]
    /\ UNCHANGED <<settleOrder, call, ret, provider, pipeline, phase, files, onProgress, uploadCalls,
                   outcome, seen, agg, aggSeen, micro>>

\* task: the backend settles an in-flight transfer: done() resolves or rejects, and the
\* continuation of upload's await becomes a microtask
BackendSettle ==
    /\ micro = <<>>
    /\ \E u \in Uploads :
          /\ transfer[u].state = "inflight"
          /\ \/ \E loc \in Locations :
                   transfer' = [transfer EXCEPT ![u].state = "ok", ![u].location = loc]
             \/ \E e \in BackendErrors :
                   transfer' = [transfer EXCEPT ![u].state = "err", ![u].error = Some(e)]
          /\ micro' = <<Job("resume", u)>>
    /\ UNCHANGED <<settleOrder, call, ret, provider, pipeline, phase, files, onProgress, uploadCalls, reported,
                   outcome, seen, agg, aggSeen, timers, delivered>>

\* microtask: upload resumes after its await and settles its own promise
Resume ==
    /\ micro # <<>>
    /\ Head(micro).kind = "resume"
    /\ \E ct \in BOOLEAN :
       LET u == Head(micro).u
           r == uploadSettled([timers |-> timers, delivered |-> delivered],
                              u, files[u], onProgress, ct, transfer[u])
       IN /\ outcome' = [outcome EXCEPT ![u] = r.outcome]
          /\ timers' = r.timers
          /\ delivered' = r.delivered
          /\ micro' = Append(Tail(micro), Job("react", u))
          /\ settleOrder' = Append(settleOrder, u)
    /\ UNCHANGED <<call, ret, provider, pipeline, phase, files, onProgress, uploadCalls, transfer,
                   reported, seen, agg, aggSeen>>

\* microtask: the awaiter of an upload's promise (Promise.all) observes its outcome
React ==
    /\ micro # <<>>
    /\ Head(micro).kind = "react"
    /\ LET u == Head(micro).u
           a == promiseAll(agg, u, outcome[u])
       IN /\ seen' = [seen EXCEPT ![u] = outcome[u]]
          /\ agg' = a
          /\ micro' = IF agg.kind = "pending" /\ a.kind # "pending"
                      THEN Append(Tail(micro), Job("caller", 0))
                      ELSE Tail(micro)
    /\ UNCHANGED <<settleOrder, call, ret, provider, pipeline, phase, files, onProgress, uploadCalls, transfer,
                   reported, outcome, aggSeen, timers, delivered>>

\* microtask: the caller's continuation observes the outcome of the facade call
CallerContinues ==
    /\ micro # <<>>
    /\ Head(micro).kind = "caller"
    /\ aggSeen' = CallerView(agg)
    /\ micro' = Tail(micro)
    /\ UNCHANGED <<settleOrder, call, ret, provider, pipeline, phase, files, onProgress, uploadCalls, transfer,
                   reported, outcome, seen, agg, timers, delivered>>

\* task: the oldest zero-delay timer fires and runs the progress callback; what
\* the callback does (return late, throw) stays inside this task
TimerFires ==
    /\ micro = <<>>
    /\ timers # <<>>
    /\ delivered' = Append(delivered, [ev |-> Head(timers), ctx |-> "timer"])
    /\ timers' = Tail(timers)
    /\ UNCHANGED <<settleOrder, call, ret, provider, pipeline, phase, files, onProgress, uploadCalls, transfer,
                   reported, outcome, seen, agg, aggSeen, micro>>

Next ==
    \/ Call
    \/ BackendProgress
    \/ BackendSettle
    \/ Resume
    \/ React
    \/ CallerContinues
    \/ TimerFires

Spec == Init /\ [][Next]_vars

\* the head of the microtask queue is run: Resume, React and CallerContinues
\* are the steps that take it off the queue, and each may queue one reaction
MicrotaskRuns ==
    /\ micro # <<>>
    /\ \E then \in {<<>>, <<Job("react", Head(micro).u)>>, <<Job("caller", 0)>>} :
          micro' = Tail(micro) \o then

\* the event loop always gets to its queued work: a queued microtask is run
\* and a pending zero-delay timer fires.  Nothing obliges the backend to
\* report on a transfer or to settle it.
Fairness ==
    /\ WF_micro(MicrotaskRuns)
    /\ WF_vars(TimerFires)

SpecFair == Init /\ [][Next]_vars /\ Fairness

SpecMultiple == InitMultiple /\ [][Next]_vars

----------------------------------------------------------------------------
(* Single operations: the progress handler and the classification *)

\* byte-progress reports as a backend can make them: either count may be missing
\* or zero, and loaded may pass total
AllReports ==
    {Report(l, t) : l \in {None, Some(0), Some(1), Some(50), Some(100), Some(150)},
                    t \in {None, Some(0), Some(3), Some(100)}}

MimeTypes ==
    {"", "image/png", "image/jpeg", "image/gif", "image/webp", "image/tiff",
     "image/svg+xml", "image/bmp", "video/mp4", "video/quicktime", "audio/mpeg",
     "application/pdf", "application/msword", "application/vnd.ms-excel",
     "application/vnd-ms-excel", "application/json", "application/x-custom",
     "application/octet-stream", "text/plain", "text/csv"}

\* all strings of length n over the characters in alphabet
RECURSIVE StringsOfLen(_, _)
StringsOfLen(alphabet, n) ==
    IF n = 0 THEN {""}
    ELSE {c \o s : c \in alphabet, s \in StringsOfLen(alphabet, n - 1)}

\* characters of every kind: plain, white space, outside ASCII, dangerous
FewChars == {"a", ".", "_", " ", "\t", "é", "/", "?"}
ManyChars ==
    PrintableAscii \cup WhiteSpace \cup {"é", "ß", "€"}

\* the file names handed to sanitizeFileName: every short name over a few
\* characters, and every character once inside a name
FileNames ==
    UNION {StringsOfLen(FewChars, n) : n \in 0..MaxNameLen}
    \cup {"a" \o c \o ".b" : c \in ManyChars}

UtilCalls ==
    {[op |-> "httpUploadProgress", report |-> r] : r \in AllReports}
    \cup {[op |-> "getDestinationFolder", mimeType |-> m] : m \in MimeTypes}
    \cup {[op |-> "sanitizeFileName", fileName |-> n] : n \in FileNames}

\* an upload of a.png with onProgress is in flight, or a utility is about to be called
InitUtils ==
    /\ InitLoop(<<"a.png">>)
    /\ call \in UtilCalls
    /\ ret = None

\* task: the backend hands one report to the handler the upload registered
ProgressReport ==
    /\ call.op = "httpUploadProgress"
    /\ ret = None
    /\ \E ct \in BOOLEAN :
          LET st == [timers |-> timers, delivered |-> delivered]
              h == IF pipeline = "core"
                   THEN httpUploadProgress(st, 1, files[1], ct, call.report)
                   ELSE legacyHttpUploadProgress(st, 1, files[1], ct, call.report)
          IN /\ timers' = h.timers
             /\ delivered' = h.delivered
    /\ ret' = Some("handled")
    /\ UNCHANGED <<settleOrder, call, provider, pipeline, phase, files, onProgress, uploadCalls,
                   transfer, reported, outcome, seen, agg, aggSeen, micro>>

\* getDestinationFolder(mimeType) is called
Classify ==
    /\ call.op = "getDestinationFolder"
    /\ ret = None
    /\ ret' = Some(getDestinationFolder(call.mimeType))
    /\ UNCHANGED <<settleOrder, call, provider, pipeline, phase, files, onProgress, uploadCalls,
                   transfer, reported, outcome, seen, agg, aggSeen, micro, timers,
                   delivered>>

\* sanitizeFileName(fileName) is called
Sanitize ==
    /\ call.op = "sanitizeFileName"
    /\ ret = None
    /\ ret' = Some(sanitizeFileName(call.fileName))
    /\ UNCHANGED <<settleOrder, call, provider, pipeline, phase, files, onProgress, uploadCalls,
                   transfer, reported, outcome, seen, agg, aggSeen, micro, timers,
                   delivered>>

NextUtils ==
    \/ ProgressReport
    \/ Classify
    \/ Sanitize
    \/ TimerFires

SpecUtils == InitUtils /\ [][NextUtils]_vars

----------------------------------------------------------------------------
(* One upload, from the caller's request to the params sent and the result *)

Files ==
    {File("a.png", "image/png", 1024), File("anim.GIF", "", 5),
     File("my report(1).pdf", "", 20480), File("data.bin", "", 0),
     File("notes", "text/plain", 7)}

Folders == {None, Some(""), Some("docs"), Some("my docs/")}

\* the metadata maps a caller may pass; none given is the empty map
Metadatas ==
    {<<>>, ("userId" :> "12345"), ("size" :> "huge") @@ ("userId" :> "12345"),
     ("file-id" :> "mine") @@ ("fileId" :> "mine") @@ ("name" :> "x y")}

GenerateIds == {None, Some(TRUE), Some(FALSE)}
Ids == {None, Some(""), Some("id-1")}
Paths == {None, Some(""), Some("raw/my file#1.png")}

\* what generateUniqueId() may return
GeneratedIds == {"lq3k9x2ab4", "lq3k9x2zz9"}

S3Section ==
    [accessKeyId |-> Some("your-access-key-id"),
     secretAccessKey |-> Some("your-secret-access-key"),
     region |-> Some(Region), bucket |-> Some(Bucket)]

\* the requests of either pipeline: only lib's request shape has id and path
Requests(pl) ==
    {Request(f, id, path, md, folder, g) :
        f \in Files, md \in Metadatas, folder \in Folders, g \in GenerateIds,
        id \in IF pl = "lib" THEN Ids ELSE {None},
        path \in IF pl = "lib" THEN Paths ELSE {None}}

\* a facade built from an S3 configuration, the caller about to upload one file
InitRequest ==
    /\ InitLoop(<<>>)
    /\ \E dm \in {None, Some("text/plain")}, req \in Requests(pipeline) :
          call = [op |-> "upload",
                  config |-> Config("s3", Some(S3Section), None, dm),
                  request |-> req]
    /\ ret = None

\* A progress event that names the file as the storage key does.
requestEventSanitized(sent, req, progress, status, error, url) ==
    ProgressEvent(sent.fileId, sanitizeFileName(req.file.name), progress, status,
                  error, url)

\* a progress event of the upload whose params are sent: it is identified by
\* the fileId resolved for the params and names the file as the caller did
requestEvent(sent, req, progress, status, error, url) ==
    ProgressEvent(sent.fileId, req.file.name, progress, status, error, url)

\* upload runs up to its await, a progress callback being supplied: the fileId
\* is resolved, the params are built, UPLOADING 0 is reported
PrepareUpload ==
    /\ call.op = "upload"
    /\ ret = None
    /\ \E generated \in GeneratedIds :
          LET sent == putObjectParams(pipeline, mergeDefaults(call.config),
                                      call.request, generated)
          IN /\ ret' = Some([sent |-> sent,
                             generated |-> generated,
                             result |-> None,
                             error |-> None])
             /\ timers' = Append(timers, requestEvent(sent, call.request, Num(0),
                                                      UPLOADING, None, None))
    /\ UNCHANGED <<settleOrder, call, provider, pipeline, phase, files, onProgress, uploadCalls,
                   transfer, reported, outcome, seen, agg, aggSeen, micro, delivered>>

\* the transfer resolves: upload reports COMPLETED and returns its result
CompleteUpload ==
    /\ call.op = "upload"
    /\ ret # None
    /\ ret[1].result = None /\ ret[1].error = None
    /\ \E loc \in Locations :
          LET result == returnedResult(pipeline, mergeDefaults(call.config),
                                       call.request, ret[1].sent, loc)
          IN /\ ret' = Some([ret[1] EXCEPT !.result = Some(result)])
             /\ timers' = Append(timers, requestEvent(ret[1].sent, call.request, Num(100),
                                                      COMPLETED, None, Some(result.url)))
    /\ UNCHANGED <<settleOrder, call, provider, pipeline, phase, files, onProgress, uploadCalls,
                   transfer, reported, outcome, seen, agg, aggSeen, micro, delivered>>

\* the transfer rejects: upload reports FAILED and re-throws
FailUpload ==
    /\ call.op = "upload"
    /\ ret # None
    /\ ret[1].result = None /\ ret[1].error = None
    /\ \E e \in BackendErrors :
          /\ ret' = Some([ret[1] EXCEPT !.error = Some(e)])
          /\ timers' = Append(timers,
                           requestEvent(ret[1].sent, call.request, Num(0), FAILED,
                               Some(IF e.isError THEN e.message ELSE "Upload failed"),
                               None))
    /\ UNCHANGED <<settleOrder, call, provider, pipeline, phase, files, onProgress, uploadCalls,
                   transfer, reported, outcome, seen, agg, aggSeen, micro, delivered>>

NextRequest ==
    \/ PrepareUpload
    \/ CompleteUpload
    \/ FailUpload

SpecRequest == InitRequest /\ [][NextRequest]_vars

----------------------------------------------------------------------------
(* Construction of the facade *)

TypeTags == {"s3", "S3", "gcs", "azure", ""}

\* the s3 section as a caller may pass it: absent, whole, or with a field missing
S3Sections ==
    {None, Some(S3Section)}
    \cup {Some([S3Section EXCEPT ![f] = None]) :
              f \in {"accessKeyId", "secretAccessKey", "region", "bucket"}}

Configs ==
    {Config(t, s, m, d) : t \in TypeTags, s \in S3Sections,
                          m \in {None, Some(5)}, d \in {None, Some("text/plain")}}

\* the backend client's constructor is handed credentials and a region
ClientIsWhole(s3) ==
    s3.accessKeyId # None /\ s3.secretAccessKey # None /\ s3.region # None

\* before `new Uplifty(config)`
InitConstruct ==
    /\ pipeline \in Pipelines
    /\ provider = None
    /\ phase = "new"
    /\ files = <<>>
    /\ onProgress = FALSE
    /\ uploadCalls = 0
    /\ transfer = <<>>
    /\ reported = <<>>
    /\ outcome = <<>>
    /\ seen = <<>>
    /\ agg = AggPending(0)
    /\ aggSeen = Pending
    /\ micro = <<>>
    /\ timers = <<>>
    /\ delivered = <<>>
    /\ settleOrder = <<>>
    /\ \E c \in Configs : call = [op |-> "new Uplifty", config |-> c]
    /\ ret = None

\* new Uplifty(config) runs; a client handed an incomplete section may or may
\* not throw
Construct ==
    /\ call.op = "new Uplifty"
    /\ phase = "new"
    /\ \E clientThrows \in BOOLEAN :
          /\ clientThrows =>
                (call.config.s3 # None /\ ~ClientIsWhole(call.config.s3[1]))
          /\ LET r == newUplifty(call.config, clientThrows)
             IN /\ ret' = Some([threw |-> r.threw, instance |-> r.instance,
                                got |-> None])
                /\ provider' = IF r.instance = None THEN None
                               ELSE Some("S3StorageProvider")
                /\ phase' = IF r.instance = None THEN "failed" ELSE "ready"
    /\ UNCHANGED <<settleOrder, call, pipeline, files, onProgress, uploadCalls, transfer, reported,
                   outcome, seen, agg, aggSeen, micro, timers, delivered>>

\* the caller asks the instance for its configuration, at any time after a
\* successful construction; got holds what the latest getConfig() returned
GetConfig ==
    /\ call.op = "new Uplifty"
    /\ phase \in {"ready", "called"}
    /\ ret' = Some([ret[1] EXCEPT !.got = Some(getConfig(ret[1].instance[1]))])
    /\ UNCHANGED <<settleOrder, call, provider, pipeline, phase, files, onProgress, uploadCalls,
                   transfer, reported, outcome, seen, agg, aggSeen, micro, timers,
                   delivered>>

NextConstruct ==
    \/ Construct
    \/ GetConfig

SpecConstruct == InitConstruct /\ [][NextConstruct]_vars

----------------------------------------------------------------------------
(* The facade call under a configured maxConcurrentUploads *)

\* the values of maxConcurrentUploads the facade is configured with: left out
\* (the provider's default applies) or below the number of files
ConcurrencyLimits == {None, Some(1)}

\* the state after `new Uplifty(config)`, the configuration being on record
InitLimited ==
    /\ \E fl \in FileLists : InitLoop(fl)
    /\ \E m \in ConcurrencyLimits :
          call = [op |-> "uploadMultiple", config |-> Config("s3", Some(S3Section), m, None)]
    /\ ret = None

SpecLimited == InitLimited /\ [][Next]_vars

----------------------------------------------------------------------------
(* The facade over its lifetime: construction, then call after call *)

\* the configurations the lifetime is run with: an S3 configuration with and
\* without maxConcurrentUploads, and one of an unsupported type
LifetimeConfigs ==
    {Config("s3", Some(S3Section), m, None) : m \in {None, Some(5)}}
    \cup {Config("gcs", None, None, None)}

\* before `new Uplifty(config)`
InitLifetime ==
    /\ InitConstruct
    /\ call.config \in LifetimeConfigs

\* the previous facade call, if any, has run to its end: the caller has its
\* outcome, every transfer has settled and every event has been delivered
CallIsOver ==
    \/ phase = "ready"
    \/ /\ phase = "called"
       /\ aggSeen # Pending
       /\ micro = <<>> /\ timers = <<>>
       /\ \A u \in Uploads : transfer[u].state # "inflight"

\* the caller takes a file list for its next call on the same instance; what
\* was recorded about the previous call is dropped, the instance stays as it is
HandFiles ==
    /\ call.op = "new Uplifty"
    /\ CallIsOver
    /\ \E fl \in SingleFileLists :
          /\ files' = fl
          /\ transfer' = [i \in 1..Len(fl) |-> NoTransfer]
          /\ reported' = [i \in 1..Len(fl) |-> <<>>]
          /\ outcome' = [i \in 1..Len(fl) |-> Pending]
          /\ seen' = [i \in 1..Len(fl) |-> Pending]
          /\ agg' = AggPending(Len(fl))
    /\ phase' = "ready"
    /\ onProgress' = FALSE
    /\ uploadCalls' = 0
    /\ aggSeen' = Pending
    /\ delivered' = <<>>
    /\ settleOrder' = <<>>
    /\ UNCHANGED <<call, ret, provider, pipeline, micro, timers>>

NextLifetime ==
    \/ Construct
    \/ GetConfig
    \/ HandFiles
    \/ Next

SpecLifetime == InitLifetime /\ [][NextLifetime]_vars

----------------------------------------------------------------------------
(* Properties *)

IsTerminal(ev) == ev.status \in {COMPLETED, FAILED}

\* every event handed to notifyProgress so far, in the order it was handed over
Emitted == [i \in DOMAIN delivered |-> delivered[i].ev] \o timers

EventsOf(log, u) == SelectSeq(log, LAMBDA ev : ev.u = u)
DeliveredTo(u) == EventsOf([i \in DOMAIN delivered |-> delivered[i].ev], u)

TerminalsIn(log, u) == {i \in DOMAIN log : log[i].u = u /\ IsTerminal(log[i])}

\* the backend transfer of upload u has settled and upload has resumed after it
TransferSettled(u) == transfer[u].state \in {"ok", "err"} /\ outcome[u] # Pending

\* C1: for an upload with a progress callback, once the transfer has settled
\* exactly one terminal event exists (COMPLETED after success, FAILED after
\* failure), it is delivered once, and no event of that upload follows it.
C1_OneTerminalEvent ==
    \A u \in Uploads : onProgress =>
        LET evs == DeliveredTo(u)
            all == EventsOf(Emitted, u)
        IN /\ Cardinality(TerminalsIn(all, u)) <= 1
           /\ \A i \in TerminalsIn(all, u) :
                 /\ i = Len(all)
                 /\ all[i].status =
                       (IF transfer[u].state = "ok" THEN COMPLETED ELSE FAILED)
           /\ TransferSettled(u) => Cardinality(TerminalsIn(all, u)) = 1
           /\ (TransferSettled(u) /\ timers = <<>>) =>
                 /\ Cardinality(TerminalsIn(evs, u)) = 1
                 /\ IsTerminal(evs[Len(evs)])

C1_Witness ==
    \E u \in Uploads :
        /\ onProgress
        /\ transfer[u].state = "ok"
        /\ Len(reported[u]) >= 2
        /\ timers = <<>>
        /\ Cardinality(TerminalsIn(DeliveredTo(u), u)) = 1

Script == <<Report(Some(0), Some(100)), Report(Some(50), Some(100)),
            Report(Some(100), Some(100))>>

\* C2: after a successful transfer that reported 0/100, 50/100, 100/100, the
\* delivered events contain UPLOADING(0), UPLOADING(50), COMPLETED(100, url) in
\* that order, url being the reported location or else the derived URL, and
\* the COMPLETED event is the only terminal event.
C2_ScriptedSuccess ==
    \A u \in Uploads :
        (/\ onProgress
         /\ reported[u] = Script
         /\ transfer[u].state = "ok"
         /\ outcome[u] # Pending
         /\ timers = <<>>) =>
        LET evs == DeliveredTo(u)
            url == IF transfer[u].location # None THEN transfer[u].location[1]
                   ELSE constructS3Url(getFilePath(File(files[u], "", 0), None))
        IN /\ \E i, j, k \in DOMAIN evs :
                 /\ i < j /\ j < k
                 /\ evs[i] = ProgressEvent(u, files[u], Num(0), UPLOADING, None, None)
                 /\ evs[j] = ProgressEvent(u, files[u], Num(50), UPLOADING, None, None)
                 /\ evs[k] = ProgressEvent(u, files[u], Num(100), COMPLETED, None,
                                           Some(url))
           /\ TerminalsIn(evs, u) = {Len(evs)}

C2_Witness ==
    \E u \in Uploads :
        /\ onProgress
        /\ reported[u] = Script
        /\ transfer[u].state = "ok"
        /\ transfer[u].location = None
        /\ outcome[u] # Pending
        /\ timers = <<>>

\* C3: when a transfer fails after partial progress, exactly one FAILED event
\* is emitted, its error is a non-empty string, and the call rejects with the
\* error the backend raised.
C3_FailedEventHasMessage ==
    \A u \in Uploads :
        (/\ onProgress
         /\ transfer[u].state = "err"
         /\ Len(reported[u]) >= 1
         /\ outcome[u] # Pending) =>
        LET all == EventsOf(Emitted, u)
            failed == {i \in DOMAIN all : all[i].status = FAILED}
        IN /\ Cardinality(failed) = 1
           /\ \A i \in failed : all[i].error # None /\ all[i].error[1] # ""
           /\ outcome[u] = Rejected(transfer[u].error[1])

\* C4 as claimed: the terminal event has been delivered to the callback by the
\* time the outcome of the upload call reaches the code awaiting it.
C4_TerminalDeliveredBeforeOutcome ==
    \A u \in Uploads :
        (onProgress /\ transfer[u].state \in {"ok", "err"} /\ seen[u] # Pending) =>
            TerminalsIn(DeliveredTo(u), u) # {}

\* C4 amended: the terminal event is queued for dispatch before the upload
\* promise settles, and it is delivered to the callback only after the promise
\* has settled and the code awaiting it has observed the outcome.
C4_TerminalQueuedBeforeOutcome ==
    \A u \in Uploads : onProgress =>
        /\ TransferSettled(u) => TerminalsIn(EventsOf(Emitted, u), u) # {}
        /\ TerminalsIn(DeliveredTo(u), u) # {} =>
              /\ outcome[u] # Pending
              /\ seen[u] = outcome[u]

C4_Witness ==
    \E u \in Uploads :
        /\ onProgress
        /\ transfer[u].state \in {"ok", "err"}
        /\ seen[u] # Pending
        /\ TerminalsIn(EventsOf(timers, u), u) # {}

\* what C5 says of each state
C5_OutcomeState ==
    \A u \in Uploads :
        /\ outcome[u].kind = "resolved" => transfer[u].state = "ok"
        /\ outcome[u].kind = "rejected" =>
              /\ transfer[u].state \in {"err", "createFailed"}
              /\ outcome[u].error = transfer[u].error[1]
        /\ (transfer[u].state \in {"ok", "err", "createFailed"} /\ micro = <<>>) =>
              outcome[u].kind = (IF transfer[u].state = "ok" THEN "resolved"
                                 ELSE "rejected")
        /\ seen[u] # Pending => seen[u] = outcome[u]

\* what C5 says of each step
C5_OutcomeStep ==
    \A u \in Uploads : outcome[u] # Pending => outcome'[u] = outcome[u]

\* C5: an upload call has one outcome: resolved exactly when the transfer
\* succeeded, otherwise rejected with the very value the backend raised, with or
\* without a progress callback; once settled the outcome never changes.
C5_OneOutcome == [] C5_OutcomeState /\ [][C5_OutcomeStep]_vars

C5_Witness ==
    \E u \in Uploads :
        /\ ~onProgress
        /\ transfer[u].state = "err"
        /\ seen[u].kind = "rejected"
        /\ seen[u].error = ErrNotError

\* C6: when the transfer of at least one file fails, the facade call fails and
\* hands the caller an error only, never a list, even if other files completed.
C6_AggregateFails ==
    /\ (\E u \in Uploads : seen[u].kind = "rejected") => agg.kind = "rejected"
    /\ (\E u \in Uploads : transfer[u].state \in {"err", "createFailed"}) =>
          /\ agg.kind # "resolved"
          /\ aggSeen.kind # "resolved"
    /\ ((\E u \in Uploads : outcome[u].kind = "rejected") /\ micro = <<>>) =>
          \E u \in Uploads :
              outcome[u].kind = "rejected" /\ aggSeen = Rejected(outcome[u].error)

C6_Witness ==
    /\ Len(files) = 2
    /\ seen[1].kind = "resolved"
    /\ seen[2].kind = "rejected"
    /\ aggSeen.kind = "rejected"

\* C7: the facade call with an empty file list resolves to the empty list,
\* calls provider.upload for no file and emits no progress event.
C7_EmptyList ==
    (files = <<>> /\ phase = "called") =>
        /\ agg = AggResolved(<<>>)
        /\ micro = <<>> => aggSeen = Resolved(<<>>)
        /\ uploadCalls = 0
        /\ timers = <<>>
        /\ delivered = <<>>

C7_Witness == files = <<>> /\ phase = "called" /\ aggSeen = Resolved(<<>>)

\* C8: the callback only ever runs in a timer task of its own, never inside
\* upload's execution or the backend's progress handler, so nothing the
\* callback throws reaches the transfer's handler or the upload's outcome.
C8_CallbackRunsInTimerTask ==
    /\ \A i \in DOMAIN delivered : delivered[i].ctx = "timer"
    /\ \A u \in Uploads :
          /\ ~transfer[u].handlerThrew
          /\ outcome[u].kind = "rejected" => outcome[u].error # CallbackError
          /\ (onProgress /\ transfer[u].state \in {"inflight", "ok", "err"}) =>
                Len(EventsOf(Emitted, u)) >= 1

C8_Witness ==
    \E u \in Uploads :
        /\ transfer[u].state = "inflight"
        /\ Len(reported[u]) >= 1
        /\ Len(DeliveredTo(u)) >= 2

\* C9 as claimed: the UPLOADING 0 event has been handed to the callback when
\* upload issues the transfer.
C9_InitialDeliveredBeforeTransfer ==
    \A u \in Uploads :
        (onProgress /\ transfer[u].state \in {"inflight", "ok", "err"}) =>
            transfer[u].deliveredAtIssue >= 1

\* C9 amended: when upload issues the transfer the UPLOADING 0 event is already
\* queued for dispatch (and is the first event of the upload), but it has not
\* been delivered: the callback receives it after the transfer was issued.
C9_InitialQueuedBeforeTransfer ==
    \A u \in Uploads :
        (onProgress /\ transfer[u].state \in {"inflight", "ok", "err"}) =>
            /\ transfer[u].queuedAtIssue = 1
            /\ transfer[u].deliveredAtIssue = 0
            /\ EventsOf(Emitted, u)[1] =
                  ProgressEvent(u, files[u], Num(0), UPLOADING, None, None)

C9_Witness ==
    \E u \in Uploads :
        /\ onProgress
        /\ transfer[u].state = "inflight"
        /\ DeliveredTo(u) =
              <<ProgressEvent(u, files[u], Num(0), UPLOADING, None, None)>>

\* C10: in every event, error is present only with FAILED and url only with
\* COMPLETED; COMPLETED carries progress 100 and a url, FAILED carries an error;
\* no status other than UPLOADING, COMPLETED, FAILED is emitted.
C10_EventShape ==
    \A i \in DOMAIN Emitted :
        LET ev == Emitted[i]
        IN /\ ev.status \in {UPLOADING, COMPLETED, FAILED}
           /\ ev.error # None => ev.status = FAILED
           /\ ev.url # None => ev.status = COMPLETED
           /\ ev.status = COMPLETED => (ev.progress = Num(100) /\ ev.url # None)
           /\ ev.status = FAILED => ev.error # None

C10_Witness ==
    /\ \E i \in DOMAIN delivered : delivered[i].ev.status = COMPLETED
    /\ \E i \in DOMAIN delivered : delivered[i].ev.status = UPLOADING
    /\ timers = <<>>

----------------------------------------------------------------------------
(* C11 - C20: values computed by single operations *)

\* C11: every progress event delivered to the callback has a progress that is
\* an integer from 0 to 100, whatever report (loaded, total) the backend made:
\* total 0 or unknown and loaded above total included.
C11_ProgressInRange ==
    \A i \in DOMAIN delivered :
        /\ delivered[i].ev.progress.kind = "finite"
        /\ delivered[i].ev.progress.v \in 0..100

C12_Expected ==
    ("image/png" :> FolderPath.IMAGES) @@ ("image/gif" :> FolderPath.VIDEOS)
    @@ ("video/mp4" :> FolderPath.VIDEOS) @@ ("application/pdf" :> FolderPath.DOCUMENTS)
    @@ ("application/x-custom" :> FolderPath.DEFAULT)

\* C12: getDestinationFolder sends image/png to the images folder, image/gif to
\* the videos folder, video/mp4 to the videos folder, application/pdf to the
\* documents folder and application/x-custom to the default folder.
C12_Classification ==
    (call.op = "getDestinationFolder" /\ ret # None
        /\ call.mimeType \in DOMAIN C12_Expected)
    => ret[1] = C12_Expected[call.mimeType]

\* the upload under study: its request, the params sent, the result returned
TheRequest == call.request
HasSent == call.op = "upload" /\ ret # None
SentParams == ret[1].sent
HasResult == HasSent /\ ret[1].result # None
TheResult == ret[1].result[1]

C13_Expected ==
    LET f == TheRequest.file
        ext == getFileExtension(f.name)
    IN IF f.type # "" THEN f.type
       ELSE IF ext \in DOMAIN mimeTypes THEN mimeTypes[ext]
       ELSE IF TruthyStr(call.config.defaultMimeType)
       THEN call.config.defaultMimeType[1]
       ELSE "application/octet-stream"

\* C13: the content type sent to the backend and returned as mimeType is the
\* declared type if non-empty, else the type the extension table gives, else the
\* configured defaultMimeType, else 'application/octet-stream'; so a file with no
\* declared type and an unknown extension gets the configured defaultMimeType.
C13_ContentType ==
    /\ HasSent => SentParams.ContentType = C13_Expected
    /\ HasResult => TheResult.mimeType = C13_Expected

\* the names of the six enrichment entries in the pipeline at hand
EnrichmentKeys == {MetadataKeys(pipeline)[f] : f \in DOMAIN MetadataKeys(pipeline)}

\* C14: the metadata of the returned UploadResult is exactly the caller's
\* metadata map; no enrichment key of the backend's Metadata appears in it unless
\* the caller supplied that key.
C14_ResultMetadata ==
    HasResult =>
        /\ DOMAIN TheResult.metadata = DOMAIN TheRequest.metadata
        /\ \A k \in DOMAIN TheRequest.metadata :
               TheResult.metadata[k] = TheRequest.metadata[k]
        /\ \A k \in EnrichmentKeys :
               k \notin DOMAIN TheRequest.metadata => k \notin DOMAIN TheResult.metadata

C14_Witness ==
    /\ HasResult
    /\ DOMAIN TheRequest.metadata = {"userId"}
    /\ TheResult.metadata["userId"] = "12345"
    /\ DOMAIN SentParams.Metadata = EnrichmentKeys \cup {"userId"}

\* C15: the Metadata sent to the backend holds the caller's value for every key
\* of the caller's metadata, also where that key is one of the six derived keys,
\* and for every derived key the caller did not supply its derived value: content
\* type, file id, storage path, file type, size as a string, sanitized name.
C15_MetadataBag ==
    HasSent =>
        LET md == TheRequest.metadata
            bag == SentParams.Metadata
            k == MetadataKeys(pipeline)
            Derived(key, value) == key \notin DOMAIN md => bag[key] = value
        IN /\ DOMAIN bag = DOMAIN md \cup EnrichmentKeys
           /\ \A key \in DOMAIN md : bag[key] = md[key]
           /\ Derived(k.contentType, SentParams.ContentType)
           /\ Derived(k.fileId, SentParams.fileId)
           /\ Derived(k.storagePath, SentParams.Key)
           /\ Derived(k.fileType, SentParams.ContentType)
           /\ Derived(k.size, toString(TheRequest.file.size))
           /\ TheRequest.file.size = 1024 => Derived(k.size, "1024")
           /\ Derived(k.name, sanitizeFileName(TheRequest.file.name))

C15_Witness ==
    /\ HasSent
    /\ DOMAIN TheRequest.metadata = {"size", "userId"}
    /\ SentParams.Metadata["size"] = "huge"
    /\ TheRequest.file.name = "my report(1).pdf"
    /\ SentParams.Metadata["name"] = "my_report_1_.pdf"

\* C19: the fileId is the caller's id when one is given (a non-empty id);
\* otherwise the id just generated when generateId is true or omitted; otherwise
\* the raw file name.  The result carries the same fileId.
C19_FileId ==
    /\ HasSent =>
          IF TruthyStr(TheRequest.id) THEN SentParams.fileId = TheRequest.id[1]
          ELSE IF TheRequest.generateId \in {None, Some(TRUE)}
          THEN SentParams.fileId = ret[1].generated
          ELSE SentParams.fileId = TheRequest.file.name
    /\ HasResult => TheResult.fileId = SentParams.fileId

C19_Witness ==
    /\ HasResult
    /\ TheRequest.id = Some("id-1")
    /\ TheRequest.generateId = None
    /\ TheResult.fileId = "id-1"

\* the folder prefix of a key: the explicit folder with '/' added unless it ends
\* with one, or else the classification folder of the declared or guessed type
C20_Prefix ==
    LET folder == TheRequest.folder
        f == TheRequest.file
    IN IF TruthyStr(folder)
       THEN (IF endsWith(folder[1], "/") THEN folder[1] ELSE folder[1] \o "/")
       ELSE getDestinationFolder(IF f.type # "" THEN f.type ELSE guessMimeType(f.name))

\* the characters a sanitized name may hold
SafeChars == (PrintableAscii \ Dangerous) \ WhiteSpace

\* the key is the folder prefix followed by a name of the file name's length
\* that holds safe characters only and equals the sanitized file name
C20_SanitizedKey ==
    LET key == SentParams.Key
        n == Len(TheRequest.file.name)
    IN /\ key = C20_Prefix \o sanitizeFileName(TheRequest.file.name)
       /\ Len(key) = Len(C20_Prefix) + n
       /\ \A i \in (Len(key) - n + 1)..Len(key) : CharAt(key, i) \in SafeChars

\* C20 as stated: for every upload the storage key is the folder prefix followed
\* by the sanitized file name; no caller input makes a key whose file-name part
\* is unsanitized.
C20_KeySanitized == HasSent => C20_SanitizedKey

\* C20: without a caller-supplied path the storage key is the folder prefix
\* followed by the sanitized file name; a non-empty path handed to the lib
\* pipeline is the key as it stands.
C20_KeyUnlessPath ==
    HasSent =>
        IF pipeline = "lib" /\ TruthyStr(TheRequest.path)
        THEN SentParams.Key = TheRequest.path[1]
        ELSE C20_SanitizedKey

C20_Witness ==
    /\ HasSent
    /\ ~TruthyStr(TheRequest.path)
    /\ TheRequest.folder = Some("docs")
    /\ TheRequest.file.name = "my report(1).pdf"
    /\ SentParams.Key = "docs/my_report_1_.pdf"

\* the construction under study
Constructed == call.op = "new Uplifty" /\ ret # None

\* s contains the string sub
Contains(s, sub) ==
    \E i \in 1..(Len(s) - Len(sub) + 1) : SubSeq(s, i, i + Len(sub) - 1) = sub

\* C16: constructing the facade with a type tag that is not a recognized storage
\* type throws an error that names the type, and leaves no instance and no
\* provider behind.
C16_UnsupportedType ==
    (Constructed /\ call.config.type # "s3") =>
        /\ ret[1].threw # None
        /\ ret[1].threw[1].message
              = "Storage type \"" \o call.config.type \o "\" is not supported"
        /\ Contains(ret[1].threw[1].message, call.config.type)
        /\ ret[1].instance = None
        /\ provider = None
        /\ ~ENABLED GetConfig

C16_Witness ==
    /\ Constructed
    /\ call.config.type = "gcs"
    /\ ret[1].threw # None
    /\ ret[1].threw[1].message = "Storage type \"gcs\" is not supported"

\* a configuration of type 's3' whose s3 section is whole
ValidS3Config ==
    /\ call.config.type = "s3"
    /\ call.config.s3 # None
    /\ \A f \in DOMAIN call.config.s3[1] : call.config.s3[1][f] # None

\* C17 as stated: for a valid S3 configuration construction succeeds and
\* getConfig() returns the input with the defaults merged in for the optional
\* fields left out (maxConcurrentUploads 10, defaultMimeType
\* 'application/octet-stream').
C17_GetConfigWithDefaults ==
    (Constructed /\ ValidS3Config) =>
        /\ ret[1].threw = None
        /\ ret[1].got # None =>
              /\ ret[1].got[1] = mergeDefaults(call.config)
              /\ ret[1].got[1].maxConcurrentUploads # None
              /\ ret[1].got[1].defaultMimeType # None

\* C17: for a valid S3 configuration construction succeeds and getConfig()
\* returns the input as it was given, optional fields left out still left out;
\* the defaults are merged into the provider's own copy only.
C17_GetConfigVerbatim ==
    (Constructed /\ ValidS3Config) =>
        /\ ret[1].threw = None
        /\ ret[1].instance # None
        /\ ret[1].instance[1].storageProvider[1].config = mergeDefaults(call.config)
        /\ ret[1].got # None => ret[1].got[1] = call.config

C17_Witness ==
    /\ Constructed
    /\ ValidS3Config
    /\ call.config.maxConcurrentUploads = None
    /\ ret[1].got # None
    /\ ret[1].got[1].maxConcurrentUploads = None
    /\ ret[1].instance[1].storageProvider[1].config.maxConcurrentUploads = Some(10)

\* C18: a configuration of type 's3' whose s3 section is absent, or lacks
\* credentials, region or bucket, is rejected by the constructor: it throws and
\* no instance is produced.
C18_MismatchRejected ==
    (Constructed /\ call.config.type = "s3" /\ ~ValidS3Config) =>
        /\ ret[1].threw # None
        /\ ret[1].instance = None

----------------------------------------------------------------------------
(* C21 - C30 *)

\* the key the transfer of upload u was issued with
KeyOf(u) == getFilePath(File(files[u], "", 0), None)

\* C21: the url of a successful upload is the location the backend reported
\* when it reported one, and otherwise https://{bucket}.s3.{region}.amazonaws.com/
\* followed by the key of the transfer; the COMPLETED event carries the same url
\* as the returned result.
C21_PublicUrl ==
    \A u \in Uploads :
        outcome[u].kind = "resolved" =>
            LET url == outcome[u].value.url
                all == EventsOf(Emitted, u)
            IN /\ url = IF TruthyStr(transfer[u].location) THEN transfer[u].location[1]
                        ELSE "https://your-bucket-name.s3.us-east-1.amazonaws.com/"
                             \o KeyOf(u)
               /\ KeyOf(u) \in {"images/a.png", "documents/b.pdf"}
               /\ \A i \in DOMAIN all :
                     all[i].status = COMPLETED => all[i].url = Some(url)
               /\ onProgress => \E i \in DOMAIN all : all[i].status = COMPLETED

C21_Witness ==
    \E u \in Uploads :
        /\ outcome[u].kind = "resolved"
        /\ transfer[u].location = None
        /\ outcome[u].value.url
              = "https://your-bucket-name.s3.us-east-1.amazonaws.com/images/a.png"
        /\ \E i \in DOMAIN delivered :
              /\ delivered[i].ev.status = COMPLETED
              /\ delivered[i].ev.url = Some(outcome[u].value.url)

\* the characters the claim lists as denylisted
C22_Denylist ==
    {"&", "/", "\\", "#", ",", "+", "(", ")", "$", "~", "%", "'", "\"", ":", "*",
     "?", "<", ">", "{", "}"}

\* a character sanitizeFileName must not let through
C22_Unsafe(c) ==
    c \in WhiteSpace \/ c \notin PrintableAscii \/ c \in C22_Denylist

\* C22: the output of sanitizeFileName holds no white space, no character outside
\* printable ASCII and no denylisted character; it has the length of the input,
\* with an underscore wherever the input had such a character and the input's
\* own character everywhere else.
C22_Sanitized ==
    (call.op = "sanitizeFileName" /\ ret # None) =>
        LET in == call.fileName
            out == ret[1]
        IN /\ Len(out) = Len(in)
           /\ \A i \in 1..Len(in) :
                 /\ ~C22_Unsafe(CharAt(out, i))
                 /\ CharAt(out, i) = IF C22_Unsafe(CharAt(in, i)) THEN "_"
                                     ELSE CharAt(in, i)

C22_Witness ==
    /\ call.op = "sanitizeFileName"
    /\ call.fileName = " /a"
    /\ ret = Some("__a")

\* C23: a report with loaded and total both known and total not 0 becomes
\* exactly one UPLOADING event with progress round(loaded / total * 100), a
\* report with loaded 0 included; a report with total unknown or 0 becomes no
\* event.
C23_ReportTranslation ==
    (call.op = "httpUploadProgress" /\ ret # None) =>
        LET r == call.report
            evs == EventsOf(Emitted, 1)
        IN IF r.loaded # None /\ r.total # None /\ r.total # Some(0)
           THEN /\ Len(evs) = 1
                /\ evs[1].status = UPLOADING
                /\ evs[1].progress
                      = Num((200 * r.loaded[1] + r.total[1]) \div (2 * r.total[1]))
           ELSE evs = <<>>

\* C24 as stated: the facade call over several files neither resolves nor
\* rejects until every constituent upload has settled.
C24_CompletesAfterAllSettled ==
    agg.kind # "pending" => \A u \in Uploads : outcome[u] # Pending

\* C24: the facade call does not resolve until every constituent upload has
\* resolved, and does not reject until a constituent has rejected; it rejects
\* at the first rejection, other constituents possibly still unsettled.
C24_ResolvesAfterAllResolved ==
    /\ agg.kind = "resolved" =>
          /\ \A u \in Uploads : outcome[u].kind = "resolved"
          /\ Len(agg.values) = Len(files)
    /\ agg.kind = "rejected" =>
          \/ \E u \in Uploads : outcome[u].kind = "rejected"
          \/ provider = None
    /\ aggSeen.kind # "pending" => agg.kind = aggSeen.kind

C24_Witness ==
    /\ Len(files) = 2
    /\ aggSeen.kind = "rejected"
    /\ \E u \in Uploads : outcome[u] = Pending /\ transfer[u].state = "inflight"


\* the positions in settleOrder of the uploads that rejected
RejectedAt == {i \in DOMAIN settleOrder : outcome[settleOrder[i]].kind = "rejected"}
FirstRejected == settleOrder[CHOOSE i \in RejectedAt : \A j \in RejectedAt : i <= j]

\* C25: a rejected facade call carries the reason of the upload that rejected
\* first in time, whatever its place in the list; provider.upload is called
\* once per file and never again; a transfer in flight when the facade call
\* rejects stays in flight until the backend settles it, and once it has
\* settled its one terminal event is handed to the shared callback.
C25_FirstRejectionWins ==
    /\ (agg.kind = "rejected" /\ provider # None) =>
          /\ RejectedAt # {}
          /\ agg.error = Some(outcome[FirstRejected].error)
    /\ phase = "called" => uploadCalls = Len(files)
    /\ \A u \in Uploads :
          /\ (agg.kind = "rejected" /\ transfer[u].state = "inflight" /\ micro = <<>>)
                => ENABLED BackendSettle
          /\ (onProgress /\ TransferSettled(u)) =>
                LET evs == EventsOf(Emitted, u)
                IN /\ Cardinality(TerminalsIn(evs, u)) = 1
                   /\ evs[Len(evs)].status =
                         (IF transfer[u].state = "ok" THEN COMPLETED ELSE FAILED)

C25_Witness ==
    /\ settleOrder = <<2, 1>>
    /\ outcome[1].kind = "rejected" /\ outcome[2].kind = "rejected"
    /\ outcome[1].error # outcome[2].error
    /\ aggSeen = Rejected(outcome[2].error)
    /\ transfer[1].state = "err"
    /\ \E i \in DOMAIN delivered : delivered[i].ev.u = 1 /\ delivered[i].ev.status = FAILED


\* upload u as it runs with nothing else on the loop: the same head, the same
\* reports of its own transfer, the same settling
RECURSIVE AloneReports(_, _, _, _)
AloneReports(st, u, rs, i) ==
    IF i = 0 THEN st
    ELSE LET prev == AloneReports(st, u, rs, i - 1)
             h == IF pipeline = "core"
                  THEN httpUploadProgress(prev, u, files[u], FALSE, rs[i])
                  ELSE legacyHttpUploadProgress(prev, u, files[u], FALSE, rs[i])
         IN [timers |-> h.timers, delivered |-> h.delivered]

Alone(u) ==
    LET st0 == [timers |-> <<>>, delivered |-> <<>>]
        fault == IF transfer[u].state = "createFailed" THEN transfer[u].error ELSE None
        a0 == IF pipeline = "core"
              THEN upload(st0, u, files[u], onProgress, FALSE, fault)
              ELSE legacyUpload(st0, u, files[u], onProgress, FALSE, fault)
        a1 == AloneReports([timers |-> a0.timers, delivered |-> a0.delivered],
                           u, reported[u], Len(reported[u]))
    IN IF TransferSettled(u)
       THEN LET a2 == uploadSettled(a1, u, files[u], onProgress, FALSE, transfer[u])
            IN [events |-> a2.timers, outcome |-> a2.outcome]
       ELSE [events |-> a1.timers, outcome |-> a0.outcome]

\* C26: whatever the interleaving of backend events, the events emitted for
\* an upload and that upload's outcome are those of the same upload running
\* alone with the same reports and the same settling of its own transfer, so
\* they do not depend on what any other upload reported or how it ended.
C26_Isolated ==
    phase = "called" =>
        \A u \in Uploads :
            LET alone == Alone(u)
                got == DeliveredTo(u)
            IN /\ outcome[u] = alone.outcome
               /\ got \o EventsOf(timers, u) = alone.events
               /\ got = SubSeq(alone.events, 1, Len(got))

C26_Witness ==
    /\ Len(files) = 2
    /\ outcome[1].kind = "rejected" /\ outcome[2].kind = "resolved"
    /\ reported[1] # <<>> /\ reported[2] # <<>>
    /\ timers = <<>>
    /\ \E i, j, k \in DOMAIN delivered :
          /\ i < j /\ j < k
          /\ delivered[i].ev.u = 2 /\ delivered[j].ev.u = 1 /\ delivered[k].ev.u = 2
    /\ delivered[Len(delivered)].ev.status = COMPLETED
    /\ \E i \in DOMAIN delivered : delivered[i].ev.status = FAILED


\* the ratio of report a is at most the ratio of report b (both with known,
\* positive totals)
RatioLeq(a, b) == a.loaded[1] * b.total[1] <= b.loaded[1] * a.total[1]

\* the reports of upload u all have known counts and positive totals, and their
\* ratios never decrease
RatiosNonDecreasing(u) ==
    /\ \A i \in DOMAIN reported[u] :
          /\ reported[u][i].loaded # None /\ reported[u][i].total # None
          /\ reported[u][i].total[1] > 0
    /\ \A i, j \in DOMAIN reported[u] :
          i <= j => RatioLeq(reported[u][i], reported[u][j])

UploadingDelivered(u) == SelectSeq(DeliveredTo(u), LAMBDA ev : ev.status = UPLOADING)

\* C27: the events of an upload are delivered in the order they were emitted,
\* and when the reported ratios never decrease the progress values of the
\* UPLOADING events delivered for it never decrease, the first being 0.
C27_MonotoneProgress ==
    \A u \in Uploads :
        /\ DeliveredTo(u) \o EventsOf(timers, u) = EventsOf(Emitted, u)
        /\ DeliveredTo(u) = SubSeq(Alone(u).events, 1, Len(DeliveredTo(u)))
        /\ RatiosNonDecreasing(u) =>
              LET up == UploadingDelivered(u)
              IN /\ up # <<>> => up[1].progress = Num(0)
                 /\ \A i, j \in DOMAIN up :
                       i <= j => /\ up[i].progress.kind = "finite"
                                 /\ up[j].progress.kind = "finite"
                                 /\ up[i].progress.v <= up[j].progress.v

C27_Witness ==
    /\ Len(files) = 1
    /\ RatiosNonDecreasing(1)
    /\ Len(reported[1]) = 3
    /\ reported[1][1] # reported[1][3]
    /\ Len(UploadingDelivered(1)) >= 3
    /\ UploadingDelivered(1)[1].progress.v < UploadingDelivered(1)[Len(UploadingDelivered(1))].progress.v


\* the transfer of upload u failed, while being created or while running, and
\* upload has gone through the failure
TransferFailed(u) ==
    /\ transfer[u].state \in {"err", "createFailed"}
    /\ outcome[u] # Pending

\* C28: when the transfer of an upload with a progress callback has failed, be
\* it while the transfer was being created, the upload has emitted a FAILED
\* event with progress 0 whose error is the raised Error's message, or
\* 'Upload failed' for a value that is not an Error, and the upload rejects
\* with the raised value itself.
C28_FailedEvent ==
    \A u \in Uploads : TransferFailed(u) =>
        LET e == transfer[u].error[1]
            evs == EventsOf(Emitted, u)
        IN /\ outcome[u] = Rejected(e)
           /\ onProgress =>
                 /\ evs # <<>>
                 /\ evs[Len(evs)] =
                       ProgressEvent(u, files[u], Num(0), FAILED,
                           Some(IF e.isError THEN e.message ELSE "Upload failed"),
                           None)


FailedEventsOf(log, u) == {i \in DOMAIN log : log[i].u = u /\ log[i].status = FAILED}

\* the transfer of upload u was issued and failed, or (providers/s3) failed
\* while it was being created inside the try block
IssuedTransferFailed(u) ==
    /\ outcome[u] # Pending
    /\ \/ transfer[u].state = "err"
       \/ pipeline = "core" /\ transfer[u].state = "createFailed"

\* C29: every step leaves the facade with one provider.upload call and one
\* transfer per file; a transfer that has settled or failed is never started
\* again and an outcome once set never changes; a failed transfer has given
\* exactly one FAILED event (when a callback was supplied), no COMPLETED
\* event, and a rejected outcome.
C29_OneTransferNoRetry ==
    [][ /\ phase' = "called" =>
              /\ uploadCalls' = Len(files')
              /\ \A u \in DOMAIN files' : transfer'[u].state # "none"
        /\ \A u \in Uploads :
              /\ transfer[u].state \in {"ok", "err", "createFailed"}
                    => transfer'[u] = transfer[u]
              /\ outcome[u] # Pending => outcome'[u] = outcome[u]
        /\ phase = "called" => uploadCalls' = uploadCalls
        /\ \A u \in DOMAIN files' :
              (transfer'[u].state \in {"err", "createFailed"} /\ outcome'[u] # Pending
                 /\ (transfer'[u].state = "err" \/ pipeline' = "core")) =>
                 LET evs == EventsOf([i \in DOMAIN delivered' |-> delivered'[i].ev]
                                        \o timers', u)
                 IN /\ outcome'[u].kind = "rejected"
                    /\ Cardinality(FailedEventsOf(evs, u)) = (IF onProgress' THEN 1 ELSE 0)
                    /\ \A i \in DOMAIN evs : evs[i].status # COMPLETED
      ]_vars

C29_Witness ==
    /\ Len(files) = 1
    /\ IssuedTransferFailed(1)
    /\ transfer[1].state = "err"
    /\ reported[1] # <<>>
    /\ timers = <<>>
    /\ Cardinality(FailedEventsOf(DeliveredTo(1), 1)) = 1
    /\ outcome[1] = Rejected(transfer[1].error[1])
    /\ seen[1] = outcome[1]
    /\ uploadCalls = 1


\* maxConcurrentUploads as the provider holds it after its constructor
ConfiguredLimit == mergeDefaults(call.config).maxConcurrentUploads[1]

InFlight == {u \in Uploads : transfer[u].state = "inflight"}

\* C30: the step in which the facade is called starts a transfer for every
\* file before anything has been awaited, whatever maxConcurrentUploads is,
\* and after the call no file is left without a transfer.
C30_AllStartedAtOnce ==
    [][ /\ (phase = "ready" /\ phase' = "called") =>
              \A u \in DOMAIN files' :
                  /\ transfer'[u].state \in {"inflight", "createFailed"}
                  /\ seen'[u] = Pending
        /\ phase' = "called" =>
              /\ uploadCalls' = Len(files')
              /\ \A u \in DOMAIN files' : transfer'[u].state # "none"
      ]_vars

C30_Witness ==
    /\ call # None /\ call.op = "uploadMultiple"
    /\ call.config.maxConcurrentUploads = Some(1)
    /\ ConfiguredLimit = 1
    /\ Len(files) = 2
    /\ Cardinality(InFlight) = 2

----------------------------------------------------------------------------
(* C31 - C35 *)

\* the backend has settled the transfer of the one upload
BackendHasSettled == Len(files) = 1 /\ transfer[1].state \in {"ok", "err"}

\* the upload call has settled and, with a callback, its terminal event has
\* been delivered
CallSettledAndTold ==
    /\ Len(files) = 1
    /\ outcome[1] # Pending
    /\ onProgress => \E i \in DOMAIN delivered : IsTerminal(delivered[i].ev)

\* while the transfer is in flight the upload call is unsettled and no terminal
\* event of it exists, delivered or queued
HungWhileInFlight ==
    (Len(files) = 1 /\ transfer[1].state = "inflight") =>
        /\ outcome[1] = Pending
        /\ seen[1] = Pending
        /\ TerminalsIn(Emitted, 1) = {}

\* C31: under fair scheduling of the event loop, once the backend has settled
\* the transfer the upload call settles and, with a callback, its terminal
\* event is delivered; as long as the backend has not settled the transfer
\* the call stays unsettled and no terminal event exists, so a transfer that
\* never settles leaves the call pending forever.
C31_SettlesIffBackendSettles ==
    /\ BackendHasSettled ~> CallSettledAndTold
    /\ []HungWhileInFlight

C31_Witness ==
    /\ BackendHasSettled
    /\ CallSettledAndTold
    /\ onProgress
    /\ reported[1] # <<>>
    /\ timers = <<>>
    /\ delivered[Len(delivered)].ev.status \in {COMPLETED, FAILED}


\* the facade was constructed successfully
InstanceExists == call # None /\ call.op = "new Uplifty" /\ phase \in {"ready", "called"}

\* C32: in every step taken after a successful construction (a facade call, a
\* step of a running upload, a getConfig call, the caller's next file list) the
\* provider is there and stays the same, the instance and its stored
\* configuration stay the same, what getConfig returned is that configuration,
\* and nothing fails with 'No storage provider initialized'.
C32_InstanceNeverChanges ==
    [][ InstanceExists =>
          /\ provider # None /\ provider' = provider
          /\ ret[1].instance # None /\ ret'[1].instance = ret[1].instance
          /\ ret'[1].instance[1].config = call.config
          /\ ret'[1].instance[1].storageProvider # None
          /\ ret'[1].got # None => ret'[1].got[1] = ret[1].instance[1].config
          /\ agg'.error # Some(NoProviderError)
          /\ aggSeen' # Rejected(NoProviderError)
          /\ \A u \in DOMAIN outcome' : outcome'[u] # Rejected(NoProviderError)
      ]_vars

C32_Witness ==
    /\ InstanceExists
    /\ phase = "called"
    /\ Len(files) = 1
    /\ delivered # <<>>
    /\ aggSeen.kind = "resolved"
    /\ ret[1].got = Some(call.config)
    /\ provider = Some("S3StorageProvider")


\* the upload u of the current run as pipeline pl runs it by itself, given the
\* same callback, the same reports and the same fate of the transfer
RECURSIVE ReplayReports(_, _, _, _, _)
ReplayReports(pl, st, u, rs, i) ==
    IF i = 0 THEN st
    ELSE LET prev == ReplayReports(pl, st, u, rs, i - 1)
             h == IF pl = "core"
                  THEN httpUploadProgress(prev, u, files[u], FALSE, rs[i])
                  ELSE legacyHttpUploadProgress(prev, u, files[u], FALSE, rs[i])
         IN [timers |-> h.timers, delivered |-> h.delivered]

Replay(pl, u) ==
    LET st0 == [timers |-> <<>>, delivered |-> <<>>]
        fault == IF transfer[u].state = "createFailed" THEN transfer[u].error ELSE None
        a0 == IF pl = "core"
              THEN upload(st0, u, files[u], onProgress, FALSE, fault)
              ELSE legacyUpload(st0, u, files[u], onProgress, FALSE, fault)
        a1 == ReplayReports(pl, [timers |-> a0.timers, delivered |-> a0.delivered],
                            u, reported[u], Len(reported[u]))
    IN IF TransferSettled(u)
       THEN LET a2 == uploadSettled(a1, u, files[u], onProgress, FALSE, transfer[u])
            IN [events |-> a2.timers, outcome |-> a2.outcome]
       ELSE [events |-> a1.timers, outcome |-> a0.outcome]

OtherPipeline == IF pipeline = "core" THEN "lib" ELSE "core"

\* C33: for the same file, callback, reports and fate of the transfer, the
\* events an upload has emitted and its outcome are those the other pipeline
\* produces (events are compared by upload, not by generated fileId).
C33_PipelinesAgree ==
    phase = "called" =>
        \A u \in Uploads :
            LET other == Replay(OtherPipeline, u)
            IN /\ EventsOf(Emitted, u) = other.events
               /\ outcome[u] = other.outcome


C35_ResultsInInputOrder ==
    aggSeen.kind = "resolved" =>
        /\ Len(aggSeen.value) = Len(files)
        /\ \A i \in DOMAIN files :
              /\ outcome[i].kind = "resolved"
              /\ aggSeen.value[i] = outcome[i].value
              /\ aggSeen.value[i].u = i
              /\ aggSeen.value[i].fileName = files[i]
        /\ Len(settleOrder) = Len(files)

C35_Witness ==
    /\ Len(files) = 2
    /\ settleOrder = <<2, 1>>
    /\ aggSeen.kind = "resolved"
    /\ aggSeen.value[1].fileName = "a.png"
    /\ aggSeen.value[2].fileName = "b.pdf"

====
